---- MODULE Spec2Model ----
(***************************************************************************)
(* Model of the agent orchestrator: the sequential entry point             *)
(* (src/main.py) and the graph entry point (src/campaign.py).              *)
(*                                                                         *)
(* Text is modelled as a sequence of one-character strings, so that        *)
(* upper(), lower(), strip(), split(), substring containment and the       *)
(* regular expressions of the source are computed character by character.  *)
(***************************************************************************)
EXTENDS Integers, Sequences, FiniteSets, TLC

VARIABLES
    \* ---- condition extraction (parse_sql_conditions / extract_conditions)
    pphase,      \* "off" | "input" | "parsed" | "extracted"
    sqlText,     \* the text handed to the parser
    sqlShape,    \* the parts the text was built from, or NoShape
    conds,       \* the condition list returned
    \* ---- record filter (apply_conditions)
    fphase,      \* "off" | "input" | "once" | "twice"
    fdata,       \* the input list: a sequence of record references
    fconds,      \* the condition list
    fout1,       \* apply_conditions(fdata, fconds)
    fout2,       \* apply_conditions(fout1, fconds)
    \* ---- the agent (process_query)
    entry,       \* "main" (src/main.py) | "graph" (src/campaign.py)
    pc,          \* position inside process_query
    calls,       \* number of process_query calls started
    query,       \* index of the query being processed (0: none)
    json_data,   \* graph state "json_data"
    tool,        \* normalized classifier reply / graph state "tool"
    result,      \* the result object of the call in progress
    memory,      \* self.memory (main) / state["memory"] (graph)
    llmCalls,    \* provider calls issued by the call in progress
    llmFailed,   \* a provider call of the call in progress failed
    visited,     \* graph nodes / handlers run by the call in progress
    memAtStart,  \* memory when the call started
    nRecorded,   \* number of calls that recorded a {query, result} pair
    lastRecorded,\* the pair recorded last (NoEntry: none yet)
    \* ---- the bounded memory alone (add_to_memory / update_memory_node)
    mentry,      \* "off" | "main" | "graph": whose record operation is applied
    mmem,        \* the memory list operated on
    mhist,       \* every pair recorded on mmem so far, in order
    mheld,       \* the result memory_tool returned last (NoResult: none yet)
    mheldSeen    \* previous_queries of mheld as read when it was returned

pvars == <<pphase, sqlText, sqlShape, conds>>
fvars == <<fphase, fdata, fconds, fout1, fout2>>
avars == <<entry, pc, calls, query, json_data, tool, result, memory,
           llmCalls, llmFailed, visited, memAtStart, nRecorded, lastRecorded>>
mvars == <<mentry, mmem, mhist, mheld, mheldSeen>>
vars == <<pvars, fvars, avars, mvars>>

----------------------------------------------------------------------------
(* Text primitives *)
(* An intermediate value is handed to a helper operator as an argument,    *)
(* so each is computed once, in the order the source computes it.          *)

LowerLetters == <<"a", "b", "c", "d", "e", "f", "g", "h", "i", "j", "k", "l", "m",
                  "n", "o", "p", "q", "r", "s", "t", "u", "v", "w", "x", "y", "z">>
UpperLetters == <<"A", "B", "C", "D", "E", "F", "G", "H", "I", "J", "K", "L", "M",
                  "N", "O", "P", "Q", "R", "S", "T", "U", "V", "W", "X", "Y", "Z">>
Digits == <<"0", "1", "2", "3", "4", "5", "6", "7", "8", "9">>

Range(s) == {s[i] : i \in 1..Len(s)}

IndexIn(tbl, c) == CHOOSE i \in 1..Len(tbl) : tbl[i] = c

\* the least / greatest element of a set of integers, d when it is empty
MinOf(S, d) == IF S = {} THEN d ELSE CHOOSE x \in S : \A y \in S : x <= y
MaxOf(S, d) == IF S = {} THEN d ELSE CHOOSE x \in S : \A y \in S : x >= y

UpperChar(c) == IF c \in Range(LowerLetters) THEN UpperLetters[IndexIn(LowerLetters, c)] ELSE c
LowerChar(c) == IF c \in Range(UpperLetters) THEN LowerLetters[IndexIn(UpperLetters, c)] ELSE c

\* str.upper() / str.lower()
Upper(s) == [i \in 1..Len(s) |-> UpperChar(s[i])]
Lower(s) == [i \in 1..Len(s) |-> LowerChar(s[i])]

\* the regular-expression classes \d, \w, \s and the quote class ['"]
IsDigit(c) == c \in Range(Digits)
IsWord(c) == c \in Range(LowerLetters) \cup Range(UpperLetters) \cup Range(Digits) \cup {"_"}
IsSpace(c) == c \in {" ", "\n", "\t"}
IsQuote(c) == c \in {"'", "\""}

\* s[a..b] as a sequence (empty when a > b)
Slice(s, a, b) == IF a > b THEN <<>> ELSE SubSeq(s, a, b)

\* sub occurs in s at position i
OccursAt(s, sub, i) ==
    /\ i >= 1
    /\ i + Len(sub) - 1 <= Len(s)
    /\ \A k \in 1..Len(sub) : s[i + k - 1] = sub[k]

\* the upper-case word kw occurs in s at position i, ignoring case
OccursAtIgnoreCase(s, kw, i) ==
    /\ i >= 1
    /\ i + Len(kw) - 1 <= Len(s)
    /\ \A k \in 1..Len(kw) : UpperChar(s[i + k - 1]) = kw[k]

\* the first position >= from at which sub occurs in s, 0 when there is none
FindFrom(s, sub, from) ==
    MinOf({i \in from..(Len(s) - Len(sub) + 1) : OccursAt(s, sub, i)}, 0)

\* Python's `sub in s`
Contains(s, sub) == FindFrom(s, sub, 1) # 0

\* str.strip()
Strip(s) ==
    Slice(s, MinOf({i \in 1..Len(s) : ~IsSpace(s[i])}, Len(s) + 1),
             MaxOf({i \in 1..Len(s) : ~IsSpace(s[i])}, 0))

\* s without its last character when that is c
DropLast(s, c) == IF s # <<>> /\ s[Len(s)] = c THEN Slice(s, 1, Len(s) - 1) ELSE s

\* the text of s before position i, all of s when i = 0
Before(s, i) == IF i = 0 THEN s ELSE Slice(s, 1, i - 1)

\* the text of s from position a up to position j (exclusive), to the end
\* of s when j = 0
FromTo(s, a, j) == IF j = 0 THEN Slice(s, a, Len(s)) ELSE Slice(s, a, j - 1)

\* s.split(sep)[0]: the text before the first sep
SplitFirst(s, sep) == Before(s, FindFrom(s, sep, 1))

\* the text of s from position a to the next sep
UpToNext(s, sep, a) == FromTo(s, a, FindFrom(s, sep, a))

\* s.split(sep)[1], for s containing sep: the text between the first and the
\* second occurrence of sep (or the end of s)
SplitSecond(s, sep) == UpToNext(s, sep, FindFrom(s, sep, 1) + Len(sep))

\* the first position >= i that is in `stops`, Len(s) + 1 when there is none
FirstStop(s, i, stops) == MinOf({j \in stops : j >= i}, Len(s) + 1)

\* the end (exclusive) of the longest run of \w, \s, \d, [^'"] starting at i
WordEnd(s, i) == FirstStop(s, i, {j \in 1..Len(s) : ~IsWord(s[j])})
SpaceEnd(s, i) == FirstStop(s, i, {j \in 1..Len(s) : ~IsSpace(s[j])})
DigitEnd(s, i) == FirstStop(s, i, {j \in 1..Len(s) : ~IsDigit(s[j])})
NonQuoteEnd(s, i) == FirstStop(s, i, {j \in 1..Len(s) : IsQuote(s[j])})

----------------------------------------------------------------------------
(* Condition extraction: extract_conditions and parse_sql_conditions *)

KwWhere == <<"W", "H", "E", "R", "E">>
KwGroupBy == <<"G", "R", "O", "U", "P", " ", "B", "Y">>
KwOrderBy == <<"O", "R", "D", "E", "R", " ", "B", "Y">>
KwAnd == <<"A", "N", "D">>
KwOr == <<"O", "R">>
KwLike == <<"L", "I", "K", "E">>

\* the trailing \s+ of the separator, the keyword ending before b (b = 0: no
\* keyword): the end of the separator, 0 when it does not match
SepSpace(s, b) == IF b = 0 \/ b > Len(s) \/ ~IsSpace(s[b]) THEN 0 ELSE SpaceEnd(s, b)

\* the keyword AND or OR at a, then the trailing \s+
SepKeyword(s, a) ==
    SepSpace(s, IF OccursAtIgnoreCase(s, KwAnd, a) THEN a + Len(KwAnd)
                ELSE IF OccursAtIgnoreCase(s, KwOr, a) THEN a + Len(KwOr)
                ELSE 0)

\* a match of \s+AND\s+|\s+OR\s+ (IGNORECASE) starting at i: its end
\* (exclusive), 0 when there is no match at i
SepEnd(s, i) == IF i <= Len(s) /\ IsSpace(s[i]) THEN SepKeyword(s, SpaceEnd(s, i)) ELSE 0

\* re.split(r'\s+AND\s+|\s+OR\s+', s, flags=re.IGNORECASE); SplitAt: the
\* leftmost separator starts at i (0: there is none)
RECURSIVE SplitAndOr(_)
SplitAt(s, i) ==
    IF i = 0 THEN <<s>>
    ELSE <<Slice(s, 1, i - 1)>> \o SplitAndOr(Slice(s, SepEnd(s, i), Len(s)))
SplitAndOr(s) == SplitAt(s, MinOf({i \in 1..Len(s) : SepEnd(s, i) # 0}, 0))

NoMatch == [ok |-> FALSE, field |-> <<>>, value |-> <<>>]
Groups(f, v) == [ok |-> TRUE, field |-> f, value |-> v]

\* the quoted tail  \s*['"]([^'"]+)['"]  starting at k: the groups, or NoMatch
QuotedTo(s, f, l, m) ==
    IF l <= Len(s) /\ IsQuote(s[l]) /\ m > l + 1 /\ m <= Len(s)
    THEN Groups(f, Slice(s, l + 1, m - 1)) ELSE NoMatch
QuotedFrom(s, f, l) == QuotedTo(s, f, l, NonQuoteEnd(s, l + 1))
QuotedAt(s, f, k) == QuotedFrom(s, f, SpaceEnd(s, k))

\* the numeric tail  \s*(\d+)  starting at k
NumberTo(s, f, l, m) == IF m > l THEN Groups(f, Slice(s, l, m - 1)) ELSE NoMatch
NumberFrom(s, f, l) == NumberTo(s, f, l, DigitEnd(s, l))
NumberAt(s, f, k) == NumberFrom(s, f, SpaceEnd(s, k))

\* (\w+)\s*<sym><tail> anchored at i, sym one of = > <; the word ends
\* before j, the symbol is expected at k
SymbolTail(s, f, k, sym, quoted) ==
    IF k <= Len(s) /\ s[k] = sym
    THEN (IF quoted THEN QuotedAt(s, f, k + 1) ELSE NumberAt(s, f, k + 1))
    ELSE NoMatch
SymbolAfter(s, i, j, sym, quoted) == SymbolTail(s, Slice(s, i, j - 1), SpaceEnd(s, j), sym, quoted)
SymbolAt(s, i, sym, quoted) ==
    IF i <= Len(s) /\ IsWord(s[i]) THEN SymbolAfter(s, i, WordEnd(s, i), sym, quoted) ELSE NoMatch

\* (\w+)\s*LIKE\s*['"]([^'"]+)['"] anchored at i: \w+ is greedy and gives
\* characters back until LIKE follows.  LikeTry: the word ends before j.
LikeAfter(s, i, j, k) ==
    IF OccursAtIgnoreCase(s, KwLike, k)
    THEN QuotedAt(s, Slice(s, i, j - 1), k + Len(KwLike)) ELSE NoMatch
LikeTry(s, i, j) == LikeAfter(s, i, j, SpaceEnd(s, j))
LikeLongest(s, i, j) == IF j = 0 THEN NoMatch ELSE LikeTry(s, i, j)
LikeAt(s, i) ==
    IF i <= Len(s) /\ IsWord(s[i])
    THEN LikeLongest(s, i, MaxOf({j \in (i + 1)..WordEnd(s, i) : LikeTry(s, i, j).ok}, 0))
    ELSE NoMatch

NumPatterns == 5

\* the comparison symbol of patterns 1 to 4 of the list `patterns`
PatternSymbol == <<"=", "=", ">", "<">>

\* pattern n of the list `patterns`, anchored at i
PatternAt(n, s, i) ==
    IF n = NumPatterns THEN LikeAt(s, i) ELSE SymbolAt(s, i, PatternSymbol[n], n = 1)

\* re.search(patterns[n], s, re.IGNORECASE): the leftmost match
SearchAt(n, s, i) == IF i = 0 THEN NoMatch ELSE PatternAt(n, s, i)
Search(n, s) == SearchAt(n, s, MinOf({i \in 1..Len(s) : PatternAt(n, s, i).ok}, 0))

\* value.replace('%', '.*')
RECURSIVE ReplacePercent(_)
ReplacePercent(v) ==
    IF v = <<>> THEN <<>>
    ELSE (IF Head(v) = "%" THEN <<".", "*">> ELSE <<Head(v)>>) \o ReplacePercent(Tail(v))

\* the operator chosen for a matched clause
OperatorOf(part) ==
    IF Contains(part, <<">">>) THEN ">"
    ELSE IF Contains(part, <<"<">>) THEN "<"
    ELSE IF Contains(Upper(part), KwLike) THEN "LIKE"
    ELSE "="

\* the condition appended for the match m of a clause with operator op
MakeCondition(m, op) ==
    [field |-> m.field, operator |-> op,
     value |-> IF op = "LIKE" THEN ReplacePercent(m.value) ELSE m.value]

\* part.strip(), then one trailing ';' removed
CleanPart(p) == DropLast(Strip(p), ";")

\* the loop over `patterns` for the cleaned part; n is the first pattern
\* that matches (0: none)
ConditionOfPattern(part, n) ==
    IF n = 0 THEN <<>> ELSE <<MakeCondition(Search(n, part), OperatorOf(part))>>
ConditionsOfClean(part) ==
    ConditionOfPattern(part, MinOf({n \in 1..NumPatterns : Search(n, part).ok}, 0))

\* the body of the loop over `parts` for one part: the conditions it appends
ConditionsOfPart(p) == ConditionsOfClean(CleanPart(p))

RECURSIVE ConditionsOfParts(_)
ConditionsOfParts(parts) ==
    IF parts = <<>> THEN <<>>
    ELSE ConditionsOfPart(Head(parts)) \o ConditionsOfParts(Tail(parts))

extract_conditions(conditions_str) == ConditionsOfParts(SplitAndOr(conditions_str))

\* w.split(kw)[0] if kw in w else w
CutAt(w, kw) == IF Contains(w, kw) THEN SplitFirst(w, kw) ELSE w

\* the body of `if "WHERE" in sql_query.upper()`, u being sql_query.upper()
ParseWhere(u) ==
    extract_conditions(Strip(CutAt(CutAt(SplitSecond(u, KwWhere), KwGroupBy), KwOrderBy)))

ParseUpper(u) == IF Contains(u, KwWhere) THEN ParseWhere(u) ELSE <<>>

\* parse_sql_conditions without the upper-casing of the query text
parse_sql_conditions_as_written(sql_query) == ParseUpper(sql_query)

parse_sql_conditions(sql_query) == ParseUpper(Upper(sql_query))

----------------------------------------------------------------------------
(* Records and the record filter: apply_conditions *)

StrVal(v) == [t |-> "str", v |-> v]
IntVal(n) == [t |-> "int", v |-> n]

FCampaignId == <<"c", "a", "m", "p", "a", "i", "g", "n", "_", "i", "d">>
FRevenue == <<"i", "n", "f", "l", "u", "e", "n", "c", "e", "d", "_", "r", "e", "v", "e", "n", "u", "e">>
FImpressions == <<"i", "m", "p", "r", "e", "s", "s", "i", "o", "n", "s">>
FClicks == <<"c", "l", "i", "c", "k", "s">>
FChannel == <<"c", "h", "a", "n", "n", "e", "l">>
FRunDate == <<"r", "u", "n", "_", "d", "a", "t", "e">>

Campaign(id, revenue, impressions, clicks, channel, day) ==
       (FCampaignId :> StrVal(<<"C", "A", "M", "P", "_", id>>))
    @@ (FRevenue :> IntVal(revenue))
    @@ (FImpressions :> IntVal(impressions))
    @@ (FClicks :> IntVal(clicks))
    @@ (FChannel :> StrVal(channel))
    @@ (FRunDate :> StrVal(<<"2", "0", "2", "5", "-", "0", "7", "-">> \o day))

\* the record objects; a record reference is an index into Heap.  1..4 are
\* the built-in records, 5 is a caller's record with a text-valued "clicks"
\* and no other field but "channel".
Heap ==
    << Campaign("A", 150000, 100000, 2500, <<"W", "h", "a", "t", "s", "A", "p", "p">>, <<"0", "5">>),
       Campaign("B", 200000, 80000, 4000, <<"E", "m", "a", "i", "l">>, <<"1", "0">>),
       Campaign("C", 175000, 120000, 3600, <<"S", "M", "S">>, <<"1", "5">>),
       Campaign("D", 90000, 60000, 1200,
                <<"P", "u", "s", "h", " ", "N", "o", "t", "i", "f", "i", "c", "a", "t", "i", "o", "n">>,
                <<"2", "0">>),
       (FChannel :> StrVal(<<"S", "M", "S">>)) @@ (FClicks :> StrVal(<<"2", "5", "0", "0">>)) >>

\* self.sample_data of each entry point (a list of record references)
sample_data(e) == IF e = "main" THEN <<1, 2, 3, 4>> ELSE <<1, 2>>

\* str(n) for a non-negative integer
RECURSIVE StrOfNat(_)
StrOfNat(n) == IF n < 10 THEN <<Digits[n + 1]>> ELSE StrOfNat(n \div 10) \o <<Digits[(n % 10) + 1]>>

\* str(item[field])
StrOf(x) == IF x.t = "int" THEN StrOfNat(x.v) ELSE x.v

\* the number written by the first n digits of d
RECURSIVE NatOfDigitsTo(_, _)
NatOfDigitsTo(d, n) ==
    IF n = 0 THEN 0 ELSE 10 * NatOfDigitsTo(d, n - 1) + (IndexIn(Digits, d[n]) - 1)

NatOfDigits(d) == NatOfDigitsTo(d, Len(d))

\* float(value): the number, or -1 for ValueError.  Decimal digits with
\* surrounding whitespace are converted; every other text of the modelled
\* alphabet that float() accepts (sign, '.', exponent, '_' between digits,
\* inf, nan) is kept out of the condition values drawn below.
FloatOfStripped(d) ==
    IF d # <<>> /\ \A i \in 1..Len(d) : IsDigit(d[i]) THEN NatOfDigits(d) ELSE -1
FloatOf(v) == FloatOfStripped(Strip(v))

\* re.compile(value) succeeds: of the metacharacters only '.' and '*' occur
\* in the modelled values; '*' with nothing to repeat, or repeated, is re.error
RegexValid(v) ==
    \A i \in 1..Len(v) : v[i] = "*" => (i > 1 /\ v[i - 1] # "*")

AtomMatches(a, c) == IF a = "." THEN c # "\n" ELSE UpperChar(a) = UpperChar(c)

\* the compiled pattern re, from its position p on, matches s starting at
\* position i (IGNORECASE)
RECURSIVE MatchHere(_, _, _, _)
MatchHere(re, p, s, i) ==
    IF p > Len(re) THEN TRUE
    ELSE IF p < Len(re) /\ re[p + 1] = "*"
    THEN \E k \in i..(Len(s) + 1) :
            /\ \A j \in i..(k - 1) : AtomMatches(re[p], s[j])
            /\ MatchHere(re, p + 2, s, k)
    ELSE /\ i <= Len(s)
         /\ AtomMatches(re[p], s[i])
         /\ MatchHere(re, p + 1, s, i + 1)

\* pattern.search(s)
RegexSearch(re, s) == \E i \in 1..(Len(s) + 1) : MatchHere(re, 1, s, i)

\* item[field] > float(value) or item[field] < float(value), n being
\* float(value) or -1 for ValueError
Compare(x, op, n) ==
    IF n < 0 THEN "ValueError"
    ELSE IF (op = ">" /\ x > n) \/ (op = "<" /\ x < n) THEN "pass" ELSE "fail"

\* one condition against the field value x of an item
CheckValue(x, c) ==
    CASE c.operator = "=" ->
            IF StrOf(x) # c.value THEN "fail" ELSE "pass"
      [] c.operator \in {">", "<"} ->
            IF x.t # "int" THEN "fail" ELSE Compare(x.v, c.operator, FloatOf(c.value))
      [] c.operator = "LIKE" ->
            IF ~RegexValid(c.value) THEN "re.error"
            ELSE IF RegexSearch(c.value, StrOf(x)) THEN "pass" ELSE "fail"
      [] OTHER -> "pass"

\* a condition on a field the item lacks is skipped instead of failing
CheckCondition_skips_missing_field(item, c) ==
    IF c.field \notin DOMAIN item THEN "pass" ELSE CheckValue(item[c.field], c)

\* one condition against one item: "pass" (the loop goes on), "fail"
\* (matches_all = False; break), or the exception raised
CheckCondition(item, c) ==
    IF c.field \notin DOMAIN item THEN "fail" ELSE CheckValue(item[c.field], c)

\* the inner loop over `conditions` for one item: "pass" when matches_all
\* stays True, "fail" after a break, or the exception raised; r is the
\* outcome of the first condition
RECURSIVE CheckItem(_, _)
CheckRest(item, conditions, r) ==
    IF r = "pass" THEN CheckItem(item, Tail(conditions)) ELSE r
CheckItem(item, conditions) ==
    IF conditions = <<>> THEN "pass"
    ELSE CheckRest(item, conditions, CheckCondition(item, Head(conditions)))

Returned(items) == [raised |-> "", items |-> items]
Raised(e) == [raised |-> e, items |-> <<>>]

\* `if matches_all: filtered_data.append(item)`, r being the outcome of
\* the inner loop
Keep(acc, ref, r) == IF r = "pass" THEN Append(acc, ref) ELSE acc

\* the outer loop over `data`, filtered_data so far being acc; r is the
\* outcome of the inner loop for the first item
RECURSIVE FilterLoop(_, _, _)

\* a filter that removes a failing item from the list it iterates over: the
\* item after a removed one is skipped and stays
FilterStep_removes_while_iterating(data, conditions, acc, r) ==
    IF r \notin {"pass", "fail"} THEN Raised(r)
    ELSE IF r = "pass" \/ Len(data) < 2 THEN FilterLoop(Tail(data), conditions, Keep(acc, Head(data), r))
    ELSE FilterLoop(Tail(Tail(data)), conditions, Append(acc, data[2]))

FilterStep(data, conditions, acc, r) ==
    IF r \notin {"pass", "fail"} THEN Raised(r)
    ELSE FilterLoop(Tail(data), conditions, Keep(acc, Head(data), r))
FilterLoop(data, conditions, acc) ==
    IF data = <<>> THEN Returned(acc)
    ELSE FilterStep(data, conditions, acc, CheckItem(Heap[Head(data)], conditions))

\* the empty filtered_data returned when there are no conditions
NoConditions_returns_filtered_data(data) == Returned(<<>>)

\* `if not conditions: return data`
NoConditions(data) == Returned(data)

\* apply_conditions(data, conditions): data is a list of record references
apply_conditions(data, conditions) ==
    IF conditions = <<>> THEN NoConditions(data) ELSE FilterLoop(data, conditions, <<>>)

----------------------------------------------------------------------------
(* Specification of the condition extractor on bounded inputs *)

\* the mock query execution of data_tool / process_data_tool_node
ExecuteQuery(e, sql) == apply_conditions(sample_data(e), parse_sql_conditions(sql))

NoShape == [prefix |-> <<>>, f |-> <<>>, X |-> <<>>, g |-> <<>>, N |-> <<>>]

\* the parts a text of the shape  ... WHERE f = 'X' AND g > N  is built from
ShapePrefixes == { <<>>,
                   <<"S", "E", "L", "E", "C", "T", " ", "*", " ", "F", "R", "O", "M", " ", "t", " ">> }
ShapeFields == { FChannel, <<"C", "H", "A", "N", "N", "E", "L">>, FRunDate }
ShapeLiterals == { <<"E", "m", "a", "i", "l">>, <<"S", "M", "S">>, <<"2", "0", "2", "5", "-", "0", "7", "-", "1", "0">> }
ShapeNumFields == { FClicks, <<"C", "L", "I", "C", "K", "S">>, FImpressions }
ShapeNumbers == { <<"5">>, <<"3", "0", "0", "0">> }

Shapes == [prefix : ShapePrefixes, f : ShapeFields, X : ShapeLiterals,
           g : ShapeNumFields, N : ShapeNumbers]

ShapeText(sh) ==
    sh.prefix \o <<"W", "H", "E", "R", "E", " ">> \o sh.f \o <<" ", "=", " ", "'">> \o sh.X
      \o <<"'", " ", "A", "N", "D", " ">> \o sh.g \o <<" ", ">", " ">> \o sh.N

\* other texts the LLM may return as the generated query
OtherTexts ==
    { <<>>,
      <<"S", "E", "L", "E", "C", "T", " ", "*", " ", "F", "R", "O", "M", " ", "t">>,
      <<"W", "H", "E", "R", "E", " ", "c", "a", "m", "p", "a", "i", "g", "n", "_", "i", "d", " ",
        "L", "I", "K", "E", " ", "'", "C", "A", "M", "P", "%", "'">>,
      <<"W", "H", "E", "R", "E", " ", "n", "o", "t", "e", " ", "=", " ", "'", "a", ">", "b", "'">>,
      <<"W", "H", "E", "R", "E", " ", "c", "l", "i", "c", "k", "s", " ", "<", " ", "3", "0", "0", "0", " ",
        "O", "R", " ", "c", "h", "a", "n", "n", "e", "l", " ", "=", " ", "\"", "S", "M", "S", "\"", ";">>,
      <<"W", "H", "E", "R", "E", " ", "c", "l", "i", "c", "k", "s", " ", "=", " ", "2", "5", "0", "0", " ",
        "G", "R", "O", "U", "P", " ", "B", "Y", " ", "c", "h", "a", "n", "n", "e", "l">>,
      <<"w", "h", "e", "r", "e", " ", "c", "l", "i", "c", "k", "s", " ", ">", "=", " ", "1", "0">>,
      <<"W", "H", "E", "R", "E", " ", "l", "i", "k", "e", "s", " ", "=", " ", "5">>,
      <<"W", "H", "E", "R", "E", " ", "c", "h", "a", "n", "n", "e", "l", " ", "L", "I", "K", "E", " ", "'", "*", "'">>,
      <<"W", "H", "E", "R", "E", " ", "c", "l", "i", "c", "k", "s", " ", "=", " ", "'", "a", ">", "b", "'">>,
      <<"W", "H", "E", "R", "E", " ", "C", "L", "I", "C", "K", "S", " ", ">", " ", "3", "0", "0", "0", " ", "O", "R", " ", "c", "h", "a", "n", "n", "e", "l", " ", "=", " ", "'", "S", "M", "S", "'">> }

ParseSqlConditions ==
    /\ pphase = "input"
    /\ conds' = parse_sql_conditions(sqlText)
    /\ pphase' = "parsed"
    /\ UNCHANGED <<sqlText, sqlShape, fvars, avars, mvars>>

ExtractConditions ==
    /\ pphase = "input"
    /\ conds' = extract_conditions(sqlText)
    /\ pphase' = "extracted"
    /\ UNCHANGED <<sqlText, sqlShape, fvars, avars, mvars>>

\* the mock execution in data_tool / process_data_tool_node of the generated
\* query sqlText on the built-in records of either entry point
ExecuteGeneratedQuery ==
    /\ pphase = "input"
    /\ \E e \in {"main", "graph"} :
          /\ fdata' = sample_data(e)
          /\ fout1' = ExecuteQuery(e, sqlText)
    /\ conds' = parse_sql_conditions(sqlText)
    /\ pphase' = "executed"
    /\ UNCHANGED <<sqlText, sqlShape, fphase, fconds, fout2, avars, mvars>>

PNext == ParseSqlConditions \/ ExtractConditions \/ ExecuteGeneratedQuery

----------------------------------------------------------------------------
(* Specification of the record filter on bounded inputs *)

MaxData == 2
MaxConds == 2

Cond(f, op, v) == [field |-> f, operator |-> op, value |-> v]

CondPool ==
    { Cond(FChannel, "=", <<"S", "M", "S">>),
      Cond(FChannel, "=", <<"E", "M", "A", "I", "L">>),
      Cond(FClicks, "=", <<"2", "5", "0", "0">>),
      Cond(FClicks, ">", <<"2", "5", "0", "0">>),
      Cond(FRevenue, "<", <<"1", "8", "0", "0", "0", "0">>),
      Cond(<<"C", "H", "A", "N", "N", "E", "L">>, "=", <<"S", "M", "S">>),
      Cond(FCampaignId, "LIKE", <<"c", "a", "m", "p", ".", "*", "b">>),
      Cond(FCampaignId, "LIKE", <<"*", "A">>),
      Cond(FClicks, ">", <<"A", ">", "B">>) }

SeqsUpTo(S, n) == UNION {[1..k -> S] : k \in 0..n}

\* filtered = apply_conditions(data, conditions)
ApplyOnce ==
    /\ fphase = "input"
    /\ fout1' = apply_conditions(fdata, fconds)
    /\ fphase' = "once"
    /\ UNCHANGED <<fdata, fconds, fout2, pvars, avars, mvars>>

\* apply_conditions(filtered, conditions), when the first call returned
ApplyTwice ==
    /\ fphase = "once"
    /\ fout1.raised = ""
    /\ fout2' = apply_conditions(fout1.items, fconds)
    /\ fphase' = "twice"
    /\ UNCHANGED <<fdata, fconds, fout1, pvars, avars, mvars>>

FNext == ApplyOnce \/ ApplyTwice

----------------------------------------------------------------------------
(* JSON extraction: extract_json_from_query (src/campaign.py) *)

\* json.loads on the modelled alphabet: objects, arrays, strings without
\* escapes, non-negative integers, true / false / null, and whitespace.
\* (Signs, fractions, exponents, escapes, NaN and Infinity do not occur in
\* the modelled queries.)
JFail == [ok |-> FALSE, v |-> [t |-> "none"], next |-> 0]
JOk(v, n) == [ok |-> TRUE, v |-> v, next |-> n]

JDict(items) == [t |-> "dict", items |-> items]
JList(items) == [t |-> "list", items |-> items]

CharAt(s, i) == IF i >= 1 /\ i <= Len(s) THEN s[i] ELSE "EOF"

\* dict[key] = val on an ordered list of items
RECURSIVE DictPut(_, _, _)
DictPut(items, key, val) ==
    IF items = <<>> THEN <<[key |-> key, val |-> val]>>
    ELSE IF Head(items).key = key THEN <<[key |-> key, val |-> val]>> \o Tail(items)
    ELSE <<Head(items)>> \o DictPut(Tail(items), key, val)

\* a string starting at the opening quote at i, the closing quote at e
JStringTo(s, i, e) ==
    IF CharAt(s, i) # "\"" \/ e = 0 THEN JFail
    ELSE IF \E k \in (i + 1)..(e - 1) : s[k] \in {"\\", "\n", "\t"} THEN JFail
    ELSE JOk([t |-> "str", v |-> Slice(s, i + 1, e - 1)], e + 1)
JString(s, i) == JStringTo(s, i, FindFrom(s, <<"\"">>, i + 1))

\* a word literal (null, true, false) at i
JWord(s, i, word, tag) ==
    IF OccursAt(s, word, i) THEN JOk([t |-> tag], i + Len(word)) ELSE JFail

\* a number starting at i and ending before e
JNumber(s, i, e) == JOk(IntVal(NatOfDigits(Slice(s, i, e - 1))), e)

RECURSIVE JValue(_, _)
RECURSIVE JMembers(_, _, _)
RECURSIVE JElements(_, _, _)

\* the members of an object: after a member, at d, with the items so far
JNextMember(s, items, d) ==
    IF CharAt(s, d) = "}" THEN JOk(JDict(items), d + 1)
    ELSE IF CharAt(s, d) = "," THEN JMembers(s, SpaceEnd(s, d + 1), items)
    ELSE JFail
\* after the value v of the key k
JAfterValue(s, acc, k, v) ==
    IF ~v.ok THEN JFail ELSE JNextMember(s, DictPut(acc, k.v.v, v.v), SpaceEnd(s, v.next))
\* after the key k, a ':' being expected at b
JColon(s, acc, k, b) ==
    IF CharAt(s, b) # ":" THEN JFail ELSE JAfterValue(s, acc, k, JValue(s, SpaceEnd(s, b + 1)))
JAfterKey(s, acc, k) == IF ~k.ok THEN JFail ELSE JColon(s, acc, k, SpaceEnd(s, k.next))
\* the members of an object from the key at a, items so far being acc
JMembers(s, a, acc) == JAfterKey(s, acc, JString(s, a))

\* the elements of an array: after an element, at d, with the items so far
JNextElement(s, items, d) ==
    IF CharAt(s, d) = "]" THEN JOk(JList(items), d + 1)
    ELSE IF CharAt(s, d) = "," THEN JElements(s, SpaceEnd(s, d + 1), items)
    ELSE JFail
JAfterElement(s, acc, v) ==
    IF ~v.ok THEN JFail ELSE JNextElement(s, Append(acc, v.v), SpaceEnd(s, v.next))
\* the elements of an array from the value at a, items so far being acc
JElements(s, a, acc) == JAfterElement(s, acc, JValue(s, a))

\* an object / an array whose first token after the bracket is at a
JObject(s, a) == IF CharAt(s, a) = "}" THEN JOk(JDict(<<>>), a + 1) ELSE JMembers(s, a, <<>>)
JArray(s, a) == IF CharAt(s, a) = "]" THEN JOk(JList(<<>>), a + 1) ELSE JElements(s, a, <<>>)

\* scan_once(s, i), c being the character at i
JValueOf(s, i, c) ==
    CASE c = "\"" -> JString(s, i)
      [] c = "{" -> JObject(s, SpaceEnd(s, i + 1))
      [] c = "[" -> JArray(s, SpaceEnd(s, i + 1))
      [] c = "n" -> JWord(s, i, <<"n", "u", "l", "l">>, "null")
      [] c = "t" -> JWord(s, i, <<"t", "r", "u", "e">>, "true")
      [] c = "f" -> JWord(s, i, <<"f", "a", "l", "s", "e">>, "false")
      [] IsDigit(c) -> JNumber(s, i, IF c = "0" THEN i + 1 ELSE DigitEnd(s, i))
      [] OTHER -> JFail
JValue(s, i) == JValueOf(s, i, CharAt(s, i))

\* json.loads(s): the value, or JFail for JSONDecodeError; r is the value
\* scanned from the first non-space character
JWhole(s, r) == IF r.ok /\ SpaceEnd(s, r.next) = Len(s) + 1 THEN r ELSE JFail
JsonLoads(s) == JWhole(s, JValue(s, SpaceEnd(s, 1)))

\* the one match of the greedy DOTALL pattern  open.*close  in s, <<>> if
\* none: it starts at the first `open` (a) and ends at the last `close` (e)
GreedyTo(s, a, e) == IF a = 0 \/ e = 0 THEN <<>> ELSE Slice(s, a, e)
GreedyFrom(s, a, close) == GreedyTo(s, a, MaxOf({j \in 1..Len(s) : s[j] = close /\ j > a}, 0))
GreedyMatch(s, open, close) == GreedyFrom(s, FindFrom(s, <<open>>, 1), close)

\* the try / except around one match: json.loads(match), then json.loads
\* of the match stripped and without a trailing comma
LoadCleaned(m, first) == IF first.ok THEN first ELSE JsonLoads(DropLast(Strip(m), ","))
LoadMatch(m) == LoadCleaned(m, JsonLoads(m))

\* the loop over the matches of one pattern (there is at most one match)
LoadMatches(m) == IF m = <<>> THEN JFail ELSE LoadMatch(m)

JNone == [t |-> "None"]

\* the loop over json_patterns, r1 and r2 being what each pattern loads
FirstLoaded(r1, r2) == IF r1.ok THEN r1.v ELSE IF r2.ok THEN r2.v ELSE JNone

\* extract_json_from_query(query): the payload, or JNone
extract_json_from_query(q) ==
    FirstLoaded(LoadMatches(GreedyMatch(q, "{", "}")), LoadMatches(GreedyMatch(q, "[", "]")))

\* Python truthiness of json_data
Truthy(j) ==
    CASE j.t \in {"dict", "list"} -> j.items # <<>>
      [] j.t = "str" -> j.v # <<>>
      [] j.t = "int" -> j.v # 0
      [] j.t = "true" -> TRUE
      [] OTHER -> FALSE

----------------------------------------------------------------------------
(* The bounded memory *)

MemoryCapacity == 2

TData == "data_tool"
TReporting == "reporting_tool"
TMemory == "memory_tool"
TGreeting == "greeting"
TFallback == "fallback"

\* every tool's result is recorded
RecordingTools_every_tool == {TData, TReporting, TMemory, TGreeting, TFallback}

\* `if result["tool"] in ["data_tool", "reporting_tool"]`
RecordingTools == {TData, TReporting}

Entry(q, r) == [query |-> q, result |-> r]

\* add_to_memory with pop() in place of pop(0): the newest entry is evicted
add_to_memory_pop_newest(mem, q, r) ==
    Append(IF Len(mem) >= MemoryCapacity THEN SubSeq(mem, 1, Len(mem) - 1) ELSE mem, Entry(q, r))

\* add_to_memory (src/main.py): self.memory after the call
add_to_memory(mem, q, r) ==
    Append(IF Len(mem) >= MemoryCapacity THEN Tail(mem) ELSE mem, Entry(q, r))

\* update_memory_node (src/campaign.py): state["memory"] after the node
update_memory_node(mem, q, r) ==
    IF r.tool \in RecordingTools
    THEN Append(IF Len(mem) >= MemoryCapacity THEN Tail(mem) ELSE mem, Entry(q, r))
    ELSE mem

----------------------------------------------------------------------------
(* Specification of the bounded memory under a sequence of record operations *)

MaxRecords == 4

\* the pairs recorded: a query index and a data_tool / reporting_tool result
MemQueries == {1, 2}
MemResults == {[tool |-> TData, summary |-> "s1"], [tool |-> TData, summary |-> "s2"],
               [tool |-> TReporting, formatted_output |-> "f1"]}

ApplyAddToMemory ==
    /\ mentry = "main"
    /\ Len(mhist) < MaxRecords
    /\ \E q \in MemQueries, r \in MemResults :
          /\ mmem' = add_to_memory(mmem, q, r)
          /\ mhist' = Append(mhist, Entry(q, r))
    /\ UNCHANGED <<mentry, mheld, mheldSeen, pvars, fvars, avars>>

ApplyUpdateMemoryNode ==
    /\ mentry = "graph"
    /\ Len(mhist) < MaxRecords
    /\ \E q \in MemQueries, r \in MemResults :
          /\ mmem' = update_memory_node(mmem, q, r)
          /\ mhist' = Append(mhist, Entry(q, r))
    /\ UNCHANGED <<mentry, mheld, mheldSeen, pvars, fvars, avars>>

----------------------------------------------------------------------------
(* The agent: process_query of both entry points *)

MaxCalls == 2

\* the query texts; a query is referred to by its index
Queries ==
    << <<"G", "o", "o", "d", " ", "M", "o", "r", "n", "i", "n", "g", "!">>,
       <<"r", "e", "v", "e", "n", "u", "e", " ", "b", "y", " ", "c", "h", "a", "n", "n", "e", "l">>,
       <<"f", "m", "t", " ", "{", "}">>,
       <<"f", "m", "t", " ", "{", "\"", "a", "\"", ":", " ", "1", "}">> >>

LData == <<"d", "a", "t", "a", "_", "t", "o", "o", "l">>
LReporting == <<"r", "e", "p", "o", "r", "t", "i", "n", "g", "_", "t", "o", "o", "l">>
LMemory == <<"m", "e", "m", "o", "r", "y", "_", "t", "o", "o", "l">>
LGreeting == <<"g", "r", "e", "e", "t", "i", "n", "g">>
LFallback == <<"f", "a", "l", "l", "b", "a", "c", "k">>
LReportingWord == <<"r", "e", "p", "o", "r", "t", "i", "n", "g">>

\* texts the classifier may reply with
ClassifierReplies ==
    { LData, LReporting, LMemory, LGreeting, LFallback,
      <<" ", "R", "e", "p", "o", "r", "t", "i", "n", "g", "_", "T", "o", "o", "l", "\n">>,
      LReportingWord,
      <<"u", "s", "e", " ", "d", "a", "t", "a", "_", "t", "o", "o", "l">>,
      <<"u", "n", "k", "n", "o", "w", "n">>,
      <<>> }

\* texts the LLM may return as the generated query
SqlReplies ==
    { <<"S", "E", "L", "E", "C", "T", " ", "*", " ", "F", "R", "O", "M", " ", "t">>,
      <<"S", "E", "L", "E", "C", "T", " ", "*", " ", "F", "R", "O", "M", " ", "t", " ",
        "W", "H", "E", "R", "E", " ", "c", "h", "a", "n", "n", "e", "l", " ", "=", " ", "'", "E", "m", "a", "i", "l", "'">> }

\* the text of a summary, a formatted table or a memory answer
ProseReplies == { <<"o", "k">> }

\* "Error calling Mistral AI: " + str(e), for an exception e with text "timeout"
ErrorText ==
    <<"E", "r", "r", "o", "r", " ", "c", "a", "l", "l", "i", "n", "g", " ", "M", "i", "s", "t", "r", "a", "l",
      " ", "A", "I", ":", " ">> \o <<"t", "i", "m", "e", "o", "u", "t">>

\* get_llm_response (src/main.py): the provider's text, or the error text
\* when the request raised
get_llm_response(ok, text) == IF ok THEN text ELSE ErrorText

\* route_query (src/main.py)
route_query(ok, text) == Lower(Strip(get_llm_response(ok, text)))

\* the if / elif chain of process_query (src/main.py)
Branch(t) ==
    IF Contains(t, LData) THEN TData
    ELSE IF Contains(t, LReporting) THEN TReporting
    ELSE IF Contains(t, LMemory) THEN TMemory
    ELSE IF Contains(t, LGreeting) THEN TGreeting
    ELSE TFallback

\* the label computed by route_query_node (src/campaign.py) from the reply
route_query_node(text, j) ==
    LET t == Lower(Strip(text))
    IN IF Truthy(j) /\ ~Contains(t, LReportingWord) THEN LReporting ELSE t

\* the mapping of add_conditional_edges: the node a label leads to, "" when
\* the label is no key of the mapping
EdgeOf(t) ==
    CASE t = LData -> "process_data_tool"
      [] t = LReporting -> "process_reporting_tool"
      [] t = LMemory -> "process_memory_tool"
      [] t = LGreeting -> "process_greeting"
      [] t = LFallback -> "process_fallback"
      [] OTHER -> ""

NoResult == [tool |-> "none"]
NoEntry == Entry(0, NoResult)

\* the mock execution of every text the query generation may yield, on the
\* built-in records of each entry point
ExecutedQueries ==
    [e \in {"main", "graph"} |-> [sql \in SqlReplies \cup {ErrorText} |-> ExecuteQuery(e, sql)]]

\* the result built by data_tool / process_data_tool_node
DataResult(sql, filtered_data, summary) ==
    [tool |-> TData, generated_query |-> sql, structured_data |-> filtered_data,
     summary |-> summary]

SampleList(e) == [t |-> "sample_data", items |-> sample_data(e)]

\* the result built by reporting_tool (src/main.py)
MainReportingResult(formatted) ==
    [tool |-> TReporting, formatted_output |-> formatted, raw_data |-> SampleList("main")]

\* the result built by process_reporting_tool_node (src/campaign.py)
GraphReportingResult(formatted, j) ==
    [tool |-> TReporting, formatted_output |-> formatted,
     data_source |-> IF j = JNone THEN "sample data (no JSON provided in query)"
                     ELSE "JSON data from your query",
     raw_data |-> IF j = JNone THEN SampleList("graph") ELSE j]

CannedMemoryResult ==
    [tool |-> TMemory, result |-> "No previous queries found in memory.",
     summary |-> "I don't have any previous results to reference yet."]

\* the result of the memory handler on a non-empty memory.  In main.py
\* previous_queries is the list object self.memory itself (alias); in
\* campaign.py it is the list of the state of this run.
MemoryResult(e, mem, summary) ==
    [tool |-> TMemory,
     previous_queries |-> IF e = "main" THEN [alias |-> TRUE, items |-> <<>>]
                          ELSE [alias |-> FALSE, items |-> mem],
     summary |-> summary]

Greetings ==
    { <<"h", "i">>, <<"h", "e", "l", "l", "o">>, <<"h", "e", "y">>,
      <<"g", "o", "o", "d", " ", "m", "o", "r", "n", "i", "n", "g">>,
      <<"g", "o", "o", "d", " ", "a", "f", "t", "e", "r", "n", "o", "o", "n">>,
      <<"g", "o", "o", "d", " ", "e", "v", "e", "n", "i", "n", "g">> }

HelpText == "I can help with campaign analytics queries like revenue, performance, CTR, etc."

\* the result built by handle_greeting / process_greeting_node
GreetingResult(q) ==
    [tool |-> TGreeting,
     response |-> IF \E g \in Greetings : Contains(Lower(Queries[q]), g)
                  THEN "Hello! I'm your data analytics assistant. How can I help you today?"
                  ELSE HelpText]

\* a greeting handler that asks the provider for the greeting text
handle_greeting_asks_llm(q) == [result |-> GreetingResult(q), requests |-> 1]

\* handle_greeting / process_greeting_node: the result, and the number of
\* provider requests the handler issues
handle_greeting(q) == [result |-> GreetingResult(q), requests |-> 0]

FallbackResult == [tool |-> TFallback, response |-> HelpText]

Returned_(p) == p \in {"done", "END"}

\* the caller invokes process_query(query).  main.py: the body starts with
\* the routing call.  campaign.py: initial_state is built with memory = []
\* and the graph is entered at extract_json.
ProcessQuery ==
    /\ pc = "idle" \/ Returned_(pc)
    /\ calls < MaxCalls
    /\ \E q \in 1..Len(Queries) : query' = q
    /\ calls' = calls + 1
    /\ pc' = IF entry = "main" THEN "route" ELSE "extract_json"
    /\ memory' = IF entry = "main" THEN memory ELSE <<>>
    /\ memAtStart' = memory'
    /\ json_data' = JNone
    /\ tool' = <<>>
    /\ result' = NoResult
    /\ llmCalls' = 0
    /\ llmFailed' = FALSE
    /\ visited' = <<>>
    /\ UNCHANGED <<entry, nRecorded, lastRecorded, pvars, fvars, mvars>>

\* what every step inside a call leaves alone
Frame == UNCHANGED <<entry, calls, query, memAtStart, pvars, fvars, mvars>>
NoRecord == UNCHANGED <<memory, nRecorded, lastRecorded>>

(* src/main.py *)

\* tool = self.route_query(query): one classification request
MainRouteQuery ==
    /\ entry = "main" /\ pc = "route"
    /\ \E ok \in BOOLEAN, text \in ClassifierReplies :
          /\ tool' = route_query(ok, text)
          /\ llmFailed' = (llmFailed \/ ~ok)
    /\ llmCalls' = llmCalls + 1
    /\ pc' = "dispatch"
    /\ Frame /\ NoRecord /\ UNCHANGED <<json_data, result, visited>>

\* result = self.data_tool(query)
MainDataTool ==
    /\ entry = "main" /\ pc = "dispatch" /\ Branch(tool) = TData
    /\ \E ok1 \in BOOLEAN, text \in SqlReplies :
       \E sql_query \in {get_llm_response(ok1, text)} :
       \E filtered \in {ExecutedQueries["main"][sql_query]} :
       \E ok2 \in BOOLEAN, prose \in ProseReplies :
          IF filtered.raised # ""
          THEN /\ pc' = "raised"
               /\ llmCalls' = llmCalls + 1
               /\ llmFailed' = (llmFailed \/ ~ok1)
               /\ UNCHANGED result
          ELSE /\ pc' = "handled"
               /\ llmCalls' = llmCalls + 2
               /\ llmFailed' = (llmFailed \/ ~ok1 \/ ~ok2)
               /\ result' = DataResult(sql_query, filtered.items, get_llm_response(ok2, prose))
    /\ visited' = Append(visited, TData)
    /\ Frame /\ NoRecord /\ UNCHANGED <<json_data, tool>>

\* result = self.reporting_tool(query)
MainReportingTool ==
    /\ entry = "main" /\ pc = "dispatch" /\ Branch(tool) = TReporting
    /\ \E ok \in BOOLEAN, prose \in ProseReplies :
          /\ result' = MainReportingResult(get_llm_response(ok, prose))
          /\ llmFailed' = (llmFailed \/ ~ok)
    /\ llmCalls' = llmCalls + 1
    /\ pc' = "handled"
    /\ visited' = Append(visited, TReporting)
    /\ Frame /\ NoRecord /\ UNCHANGED <<json_data, tool>>

\* result = self.memory_tool(query)
MainMemoryTool ==
    /\ entry = "main" /\ pc = "dispatch" /\ Branch(tool) = TMemory
    /\ IF memory = <<>>
       THEN /\ result' = CannedMemoryResult
            /\ UNCHANGED <<llmCalls, llmFailed>>
       ELSE /\ \E ok \in BOOLEAN, prose \in ProseReplies :
                  /\ result' = MemoryResult("main", memory, get_llm_response(ok, prose))
                  /\ llmFailed' = (llmFailed \/ ~ok)
            /\ llmCalls' = llmCalls + 1
    /\ pc' = "handled"
    /\ visited' = Append(visited, TMemory)
    /\ Frame /\ NoRecord /\ UNCHANGED <<json_data, tool>>

\* result = self.handle_greeting(query)
MainGreeting ==
    /\ entry = "main" /\ pc = "dispatch" /\ Branch(tool) = TGreeting
    /\ result' = handle_greeting(query).result
    /\ llmCalls' = llmCalls + handle_greeting(query).requests
    /\ pc' = "handled"
    /\ visited' = Append(visited, TGreeting)
    /\ Frame /\ NoRecord /\ UNCHANGED <<json_data, tool, llmFailed>>

\* the else branch of process_query
MainFallback ==
    /\ entry = "main" /\ pc = "dispatch" /\ Branch(tool) = TFallback
    /\ result' = FallbackResult
    /\ pc' = "handled"
    /\ visited' = Append(visited, TFallback)
    /\ Frame /\ NoRecord /\ UNCHANGED <<json_data, tool, llmCalls, llmFailed>>

\* the end of process_query: record a data / reporting result, return
MainFinish ==
    /\ entry = "main" /\ pc = "handled"
    /\ IF result.tool \in RecordingTools
       THEN /\ memory' = add_to_memory(memory, query, result)
            /\ nRecorded' = nRecorded + 1
            /\ lastRecorded' = Entry(query, result)
       ELSE NoRecord
    /\ pc' = "done"
    /\ Frame /\ UNCHANGED <<json_data, tool, result, llmCalls, llmFailed, visited>>

(* src/campaign.py *)

ExtractJsonNode ==
    /\ entry = "graph" /\ pc = "extract_json"
    /\ json_data' = extract_json_from_query(Queries[query])
    /\ pc' = "route_query"
    /\ visited' = Append(visited, "extract_json")
    /\ Frame /\ NoRecord /\ UNCHANGED <<tool, result, llmCalls, llmFailed>>

\* route_query_node, then the conditional edge out of it.  A failed
\* request raises out of graph.invoke; a label that is no key of the edge
\* mapping selects no node and the run is aborted.
RouteQueryNode ==
    /\ entry = "graph" /\ pc = "route_query"
    /\ \E ok \in BOOLEAN, text \in ClassifierReplies :
          IF ~ok
          THEN /\ pc' = "raised"
               /\ llmFailed' = TRUE
               /\ UNCHANGED tool
          ELSE /\ tool' = route_query_node(text, json_data)
               /\ pc' = IF EdgeOf(tool') = "" THEN "raised" ELSE EdgeOf(tool')
               /\ UNCHANGED llmFailed
    /\ llmCalls' = llmCalls + 1
    /\ visited' = Append(visited, "route_query")
    /\ Frame /\ NoRecord /\ UNCHANGED <<json_data, result>>

ProcessDataToolNode ==
    /\ entry = "graph" /\ pc = "process_data_tool"
    /\ \E text \in SqlReplies :
       \E filtered \in {ExecutedQueries["graph"][text]} :
       \E ok1 \in BOOLEAN, ok2 \in BOOLEAN, prose \in ProseReplies :
          IF ~ok1 \/ filtered.raised # ""
          THEN /\ pc' = "raised"
               /\ llmCalls' = llmCalls + 1
               /\ llmFailed' = (llmFailed \/ ~ok1)
               /\ UNCHANGED result
          ELSE IF ~ok2
          THEN /\ pc' = "raised"
               /\ llmCalls' = llmCalls + 2
               /\ llmFailed' = TRUE
               /\ UNCHANGED result
          ELSE /\ pc' = "update_memory"
               /\ llmCalls' = llmCalls + 2
               /\ UNCHANGED llmFailed
               /\ result' = DataResult(text, filtered.items, prose)
    /\ visited' = Append(visited, "process_data_tool")
    /\ Frame /\ NoRecord /\ UNCHANGED <<json_data, tool>>

ProcessReportingToolNode ==
    /\ entry = "graph" /\ pc = "process_reporting_tool"
    /\ \E ok \in BOOLEAN, prose \in ProseReplies :
          IF ~ok
          THEN /\ pc' = "raised"
               /\ llmFailed' = TRUE
               /\ UNCHANGED result
          ELSE /\ pc' = "update_memory"
               /\ result' = GraphReportingResult(prose, json_data)
               /\ UNCHANGED llmFailed
    /\ llmCalls' = llmCalls + 1
    /\ visited' = Append(visited, "process_reporting_tool")
    /\ Frame /\ NoRecord /\ UNCHANGED <<json_data, tool>>

ProcessMemoryToolNode ==
    /\ entry = "graph" /\ pc = "process_memory_tool"
    /\ IF memory = <<>>
       THEN /\ result' = CannedMemoryResult
            /\ pc' = "END"
            /\ UNCHANGED <<llmCalls, llmFailed>>
       ELSE /\ \E ok \in BOOLEAN, prose \in ProseReplies :
                  IF ~ok
                  THEN /\ pc' = "raised"
                       /\ llmFailed' = TRUE
                       /\ UNCHANGED result
                  ELSE /\ pc' = "END"
                       /\ result' = MemoryResult("graph", memory, prose)
                       /\ UNCHANGED llmFailed
            /\ llmCalls' = llmCalls + 1
    /\ visited' = Append(visited, "process_memory_tool")
    /\ Frame /\ NoRecord /\ UNCHANGED <<json_data, tool>>

ProcessGreetingNode ==
    /\ entry = "graph" /\ pc = "process_greeting"
    /\ result' = handle_greeting(query).result
    /\ llmCalls' = llmCalls + handle_greeting(query).requests
    /\ pc' = "END"
    /\ visited' = Append(visited, "process_greeting")
    /\ Frame /\ NoRecord /\ UNCHANGED <<json_data, tool, llmFailed>>

ProcessFallbackNode ==
    /\ entry = "graph" /\ pc = "process_fallback"
    /\ result' = FallbackResult
    /\ pc' = "END"
    /\ visited' = Append(visited, "process_fallback")
    /\ Frame /\ NoRecord /\ UNCHANGED <<json_data, tool, llmCalls, llmFailed>>

UpdateMemoryNode ==
    /\ entry = "graph" /\ pc = "update_memory"
    /\ memory' = update_memory_node(memory, query, result)
    /\ nRecorded' = IF memory' # memory THEN nRecorded + 1 ELSE nRecorded
    /\ lastRecorded' = IF memory' # memory THEN Entry(query, result) ELSE lastRecorded
    /\ pc' = "END"
    /\ visited' = Append(visited, "update_memory")
    /\ Frame /\ UNCHANGED <<json_data, tool, result, llmCalls, llmFailed>>

----------------------------------------------------------------------------
(* The memory handler on the bounded memory alone *)

\* result["previous_queries"] as read while self.memory is mem
ReadPreviousQueries(r, mem) ==
    IF "previous_queries" \notin DOMAIN r THEN <<>>
    ELSE IF r.previous_queries.alias THEN mem ELSE r.previous_queries.items

\* memory_tool (src/main.py): the result for the memory mem
memory_tool(mem, ok, prose) ==
    IF mem = <<>> THEN CannedMemoryResult
    ELSE MemoryResult("main", mem, get_llm_response(ok, prose))

\* held = self.memory_tool(query): the caller keeps the result returned
ApplyMemoryTool ==
    /\ mentry = "main"
    /\ \E ok \in BOOLEAN, prose \in ProseReplies :
          mheld' = memory_tool(mmem, ok, prose)
    /\ mheldSeen' = ReadPreviousQueries(mheld', mmem)
    /\ UNCHANGED <<mentry, mmem, mhist, pvars, fvars, avars>>

MNext == ApplyAddToMemory \/ ApplyUpdateMemoryNode \/ ApplyMemoryTool

----------------------------------------------------------------------------
(* Specifications *)

\* the agent: either entry point, no call made yet
Init ==
    /\ entry \in {"main", "graph"} /\ pc = "idle"
    /\ calls = 0 /\ query = 0 /\ json_data = JNone
    /\ tool = <<>> /\ result = NoResult /\ memory = <<>> /\ llmCalls = 0
    /\ llmFailed = FALSE /\ visited = <<>> /\ memAtStart = <<>>
    /\ nRecorded = 0 /\ lastRecorded = NoEntry
    /\ pphase = "off" /\ sqlText = <<>> /\ sqlShape = NoShape /\ conds = <<>>
    /\ fphase = "off" /\ fdata = <<>> /\ fconds = <<>>
    /\ fout1 = Returned(<<>>) /\ fout2 = Returned(<<>>)
    /\ mentry = "off" /\ mmem = <<>> /\ mhist = <<>>
    /\ mheld = NoResult /\ mheldSeen = <<>>

Next ==
    \/ ProcessQuery
    \/ MainRouteQuery \/ MainDataTool \/ MainReportingTool \/ MainMemoryTool
    \/ MainGreeting \/ MainFallback \/ MainFinish
    \/ ExtractJsonNode \/ RouteQueryNode \/ ProcessDataToolNode
    \/ ProcessReportingToolNode \/ ProcessMemoryToolNode \/ ProcessGreetingNode
    \/ ProcessFallbackNode \/ UpdateMemoryNode

Spec == Init /\ [][Next]_vars

\* the condition extractor on a text of the bounded input set
InitParse ==
    /\ pphase = "input"
    /\ conds = <<>>
    /\ \/ \E sh \in Shapes : sqlShape = sh /\ sqlText = ShapeText(sh)
       \/ sqlShape = NoShape /\ sqlText \in OtherTexts
    /\ fphase = "off" /\ fdata = <<>> /\ fconds = <<>>
    /\ fout1 = Returned(<<>>) /\ fout2 = Returned(<<>>)
    /\ mentry = "off" /\ mmem = <<>> /\ mhist = <<>>
    /\ mheld = NoResult /\ mheldSeen = <<>>
    /\ entry = "off" /\ pc = "off"
    /\ calls = 0 /\ query = 0 /\ json_data = JNone
    /\ tool = <<>> /\ result = NoResult /\ memory = <<>> /\ llmCalls = 0
    /\ llmFailed = FALSE /\ visited = <<>> /\ memAtStart = <<>>
    /\ nRecorded = 0 /\ lastRecorded = NoEntry

SpecParse == InitParse /\ [][PNext]_vars

\* the record filter on a record list and a condition list of the bounded
\* input sets
InitFilter ==
    /\ fphase = "input"
    /\ fdata \in SeqsUpTo(1..Len(Heap), MaxData)
    /\ fconds \in SeqsUpTo(CondPool, MaxConds)
    /\ fout1 = Returned(<<>>)
    /\ fout2 = Returned(<<>>)
    /\ pphase = "off" /\ sqlText = <<>> /\ sqlShape = NoShape /\ conds = <<>>
    /\ mentry = "off" /\ mmem = <<>> /\ mhist = <<>>
    /\ mheld = NoResult /\ mheldSeen = <<>>
    /\ entry = "off" /\ pc = "off"
    /\ calls = 0 /\ query = 0 /\ json_data = JNone
    /\ tool = <<>> /\ result = NoResult /\ memory = <<>> /\ llmCalls = 0
    /\ llmFailed = FALSE /\ visited = <<>> /\ memAtStart = <<>>
    /\ nRecorded = 0 /\ lastRecorded = NoEntry

SpecFilter == InitFilter /\ [][FNext]_vars

\* the bounded memory, empty, operated on by one entry point's record operation
InitMemory ==
    /\ mentry \in {"main", "graph"} /\ mmem = <<>> /\ mhist = <<>>
    /\ mheld = NoResult /\ mheldSeen = <<>>
    /\ pphase = "off" /\ sqlText = <<>> /\ sqlShape = NoShape /\ conds = <<>>
    /\ fphase = "off" /\ fdata = <<>> /\ fconds = <<>>
    /\ fout1 = Returned(<<>>) /\ fout2 = Returned(<<>>)
    /\ entry = "off" /\ pc = "off"
    /\ calls = 0 /\ query = 0 /\ json_data = JNone
    /\ tool = <<>> /\ result = NoResult /\ memory = <<>> /\ llmCalls = 0
    /\ llmFailed = FALSE /\ visited = <<>> /\ memAtStart = <<>>
    /\ nRecorded = 0 /\ lastRecorded = NoEntry

SpecMemory == InitMemory /\ [][MNext]_vars

----------------------------------------------------------------------------
(* Properties *)

FiveLabels == {LData, LReporting, LMemory, LGreeting, LFallback}

\* the queries that contain a valid embedded JSON object
JsonObjectQueries ==
    {q \in 1..Len(Queries) : extract_json_from_query(Queries[q]).t = "dict"}

\* the last min(k, Len(h)) elements of h, oldest first
LastOf(h, k) == IF Len(h) <= k THEN h ELSE SubSeq(h, Len(h) - k + 1, Len(h))

\* C1: after any sequence of record operations on one memory, the memory
\* holds exactly the last min(2, n) recorded pairs, oldest first; its length
\* never exceeds 2 (so after E1, E2, E3 it is [E2, E3]).
C1_MemoryIsLastTwo ==
    mentry # "off" => (Len(mmem) <= 2 /\ mmem = LastOf(mhist, 2))

\* three different pairs were recorded and the memory holds the last two
C1_Witness ==
    /\ Len(mhist) = 3
    /\ mhist[1] # mhist[2] /\ mhist[2] # mhist[3] /\ mhist[1] # mhist[3]
    /\ mmem = <<mhist[2], mhist[3]>>

\* C2: every memory entry has a result whose tool is data_tool or
\* reporting_tool, and a process_query call that ends in the memory_tool,
\* greeting or fallback branch returns with the memory it started with (the
\* same entries in the same order).
C2_OnlyDataAndReportingRecorded ==
    /\ \A i \in 1..Len(memory) : memory[i].result.tool \in {TData, TReporting}
    /\ (Returned_(pc) /\ result.tool \in {TMemory, TGreeting, TFallback}) => memory = memAtStart

\* a call on a non-empty memory returned from the memory_tool branch
C2_Witness ==
    /\ Returned_(pc)
    /\ result.tool = TMemory
    /\ memory # <<>>
    /\ memory = memAtStart

\* C3: in both entry points, when an earlier process_query call recorded a
\* data_tool or reporting_tool result and a later call on the same agent is
\* routed to memory_tool, the handler sees the earlier entry, issues the
\* LLM call and returns previous_queries, not the canned result.
C3_MemoryLivesAcrossCalls ==
    (Returned_(pc) /\ result.tool = TMemory /\ lastRecorded # NoEntry)
        => /\ result # CannedMemoryResult
           /\ "previous_queries" \in DOMAIN result
           /\ llmCalls = 2
           /\ \E i \in 1..Len(memory) : memory[i] = lastRecorded

\* C4: in both entry points, a process_query call whose query contains a
\* valid embedded JSON object (an empty one included) runs the
\* reporting_tool handler and returns a result with tool = reporting_tool,
\* whatever text the classifier replied with.
C4_JsonAlwaysReporting ==
    (query \in JsonObjectQueries /\ Returned_(pc) /\ ~llmFailed) => result.tool = TReporting

\* C5: in both entry points, a normalized classifier reply that is not one
\* of the five labels selects the fallback handler and the call returns the
\* fallback result; no reply text makes routing raise or select no handler.
C5_UnknownReplyFallsBack ==
    (query # 0 /\ pc \notin {"route", "extract_json", "route_query"}
       /\ tool \notin FiveLabels /\ ~llmFailed)
        => /\ pc # "raised"
           /\ Returned_(pc) => result = FallbackResult

\* C6 as stated: a process_query call that ends in the greeting branch (as
\* the one for "Good Morning!" does) returns tool = greeting and has issued
\* no call to the LLM provider.
C6_GreetingWithoutProviderCall ==
    (Returned_(pc) /\ result.tool = TGreeting) => llmCalls = 0

\* C6 amended: a process_query call that ends in the greeting branch
\* returns the greeting result and has issued exactly one call to the LLM
\* provider, the classification request; the greeting handler issues none.
C6_GreetingOnlyClassificationCall ==
    (Returned_(pc) /\ result.tool = TGreeting)
        => (result = GreetingResult(query) /\ llmCalls = 1)

\* the call for "Good Morning!" returned from the greeting branch
C6_Witness ==
    /\ Returned_(pc)
    /\ query = 1
    /\ result.tool = TGreeting
    /\ llmCalls = 1

\* C7: a failed LLM call never aborts process_query, and the result the
\* call returns differs from the normal fallback result.
C7_ProviderFailureSurfaces ==
    llmFailed => /\ pc # "raised"
                 /\ Returned_(pc) => result # FallbackResult

\* C8: for a text of the shape  ... WHERE f = 'X' AND g > N
\* parse_sql_conditions returns exactly the two conditions (f, =, X) and
\* (g, >, N), in this order, with f, g and X as written in the text.
C8_TwoConditionsAsWritten ==
    (pphase = "parsed" /\ sqlShape # NoShape)
        => conds = << Cond(sqlShape.f, "=", sqlShape.X), Cond(sqlShape.g, ">", sqlShape.N) >>

\* C9: apply_conditions with an empty condition list returns its input:
\* the same record references in the same order.
C9_EmptyConditionsIdentity ==
    (fphase \in {"once", "twice"} /\ fconds = <<>>) => fout1 = Returned(fdata)

\* two different records were filtered by no condition
C9_Witness ==
    /\ fphase = "once"
    /\ fconds = <<>>
    /\ Len(fdata) = 2 /\ fdata[1] # fdata[2]
    /\ fout1.items = fdata

\* C10: apply_conditions(apply_conditions(D, C), C) = apply_conditions(D, C)
C10_FilterIdempotent ==
    fphase = "twice" => fout2 = fout1

\* a filter that kept one record and dropped another was applied twice
C10_Witness ==
    /\ fphase = "twice"
    /\ fconds # <<>>
    /\ fout1.items # <<>>
    /\ Len(fout1.items) < Len(fdata)
    /\ fout2 = fout1

\* the record `item` satisfies the condition c
Satisfies(item, c) ==
    /\ c.field \in DOMAIN item
    /\ CASE c.operator = "=" -> StrOf(item[c.field]) = c.value
         [] c.operator = ">" ->
              item[c.field].t = "int" /\ FloatOf(c.value) >= 0 /\ item[c.field].v > FloatOf(c.value)
         [] c.operator = "<" ->
              item[c.field].t = "int" /\ FloatOf(c.value) >= 0 /\ item[c.field].v < FloatOf(c.value)
         [] c.operator = "LIKE" ->
              RegexValid(c.value) /\ RegexSearch(c.value, StrOf(item[c.field]))
         [] OTHER -> TRUE

\* the subsequence of data whose records satisfy every condition
Satisfying(data, conditions) ==
    LET All(ref) == \A i \in 1..Len(conditions) : Satisfies(Heap[ref], conditions[i])
    IN SelectSeq(data, All)

\* C11: for a non-empty condition list, apply_conditions (when it returns)
\* keeps a record iff the record satisfies every condition, and the output
\* is the subsequence of the input, in the original order, of those records.
C11_KeepsExactlySatisfying ==
    (fphase \in {"once", "twice"} /\ fconds # <<>> /\ fout1.raised = "")
        => fout1.items = Satisfying(fdata, fconds)

\* of two records the first was dropped by two conditions and the second kept
C11_Witness ==
    /\ fphase = "once"
    /\ Len(fconds) = 2
    /\ Len(fdata) = 2
    /\ fout1.raised = ""
    /\ fout1.items = <<fdata[2]>>
    /\ fdata[1] # fdata[2]

\* the JSON payload embedded in each query, JNone when there is none
PayloadOf == [q \in 1..Len(Queries) |-> extract_json_from_query(Queries[q])]

\* C12: in both entry points the result of the reporting_tool handler has
\* as raw_data the JSON payload embedded in the query when there is one and
\* the built-in record set otherwise, and a data_source field that says
\* which of the two was used.
C12_ReportingRawDataAndSource ==
    result.tool = TReporting
        => /\ "data_source" \in DOMAIN result
           /\ IF PayloadOf[query] = JNone
              THEN /\ result.raw_data = SampleList(entry)
                   /\ result.data_source = "sample data (no JSON provided in query)"
              ELSE /\ result.raw_data = PayloadOf[query]
                   /\ result.data_source = "JSON data from your query"

\* C13: for every text the LLM returns as the generated query, extracting
\* the conditions and applying them to the built-in records in data_tool
\* completes without raising.
C13_QueryExecutionNeverRaises ==
    pphase = "executed" => fout1.raised = ""

\* a query was executed whose conditions hold a value that is no number
\* under '>' or '<', or no valid regular expression under LIKE
C13_Witness ==
    /\ pphase = "executed"
    /\ fout1 = Returned(<<>>)
    /\ \E i \in 1..Len(conds) :
          \/ conds[i].operator \in {">", "<"} /\ FloatOf(conds[i].value) < 0
          \/ conds[i].operator = "LIKE" /\ ~RegexValid(conds[i].value)

\* the operator each pattern of the list `patterns` stands for
PatternOperator == <<"=", "=", ">", "<", "LIKE">>

\* the condition of a clause whose first matching pattern is n (0: none),
\* with the operator of that pattern
FirstMatchOfPattern(part, n, m) ==
    IF n = 0 THEN <<>>
    ELSE << [field |-> m.field, operator |-> PatternOperator[n],
             value |-> IF n = NumPatterns THEN ReplacePercent(m.value) ELSE m.value] >>
FirstMatchAt(part, n) == FirstMatchOfPattern(part, n, IF n = 0 THEN NoMatch ELSE Search(n, part))
FirstMatchOfClean(part) ==
    FirstMatchAt(part, MinOf({n \in 1..NumPatterns : Search(n, part).ok}, 0))

RECURSIVE FirstMatchOfParts(_)
FirstMatchOfParts(parts) ==
    IF parts = <<>> THEN <<>>
    ELSE FirstMatchOfClean(CleanPart(Head(parts))) \o FirstMatchOfParts(Tail(parts))

\* C14: the operator of each condition extract_conditions emits is the one
\* of the first pattern (string equality, numeric equality, greater than,
\* less than, LIKE) that matches the clause, whatever the quoted value
\* contains, and only the value of a LIKE condition has '%' rewritten.
C14_OperatorOfFirstMatchingPattern ==
    pphase = "extracted" => conds = FirstMatchOfParts(SplitAndOr(sqlText))

HandlerNodes ==
    {"process_data_tool", "process_reporting_tool", "process_memory_tool",
     "process_greeting", "process_fallback"}

\* the node sequences of a complete run of the graph
GraphPaths ==
    { <<"extract_json", "route_query", h>>
        \o (IF h \in {"process_data_tool", "process_reporting_tool"}
            THEN <<"update_memory">> ELSE <<>>) : h \in HandlerNodes }

IsPrefix(a, b) == Len(a) <= Len(b) /\ a = SubSeq(b, 1, Len(a))

\* C15: in the graph entry point every run visits extract_json, route_query,
\* exactly one handler node, then update_memory iff the handler is the
\* data_tool or reporting_tool one, and reaches END with a non-null result;
\* no run stops before END and no node is visited twice.
C15_GraphRunsToEnd ==
    entry = "graph"
        => /\ pc # "raised"
           /\ \E path \in GraphPaths : IsPrefix(visited, path)
           /\ pc = "END" => (visited \in GraphPaths /\ result # NoResult)

\* the LLM calls a branch issues after the classification request
FurtherCalls(t, mem) ==
    CASE t = TData -> 2
      [] t = TReporting -> 1
      [] t = TMemory -> IF mem = <<>> THEN 0 ELSE 1
      [] OTHER -> 0

BuiltInKeys == UNION {DOMAIN Heap[ref] : ref \in {1, 2, 3, 4}}

\* C17: in data_tool the structured_data is the whole built-in record set
\* when no condition is extracted and empty when at least one is: every
\* extracted field name is upper-case and no key of a built-in record.
C17_AllOrNothing ==
    pphase = "executed"
        => /\ \A i \in 1..Len(conds) :
                 conds[i].field = Upper(conds[i].field) /\ conds[i].field \notin BuiltInKeys
           /\ fout1 = IF conds = <<>> THEN Returned(fdata) ELSE Returned(<<>>)

\* a query whose condition names a field of the built-in records, in upper
\* case, was executed on the four records and excluded them all
C17_Witness ==
    /\ pphase = "executed"
    /\ Len(fdata) = 4
    /\ conds # <<>>
    /\ \E i \in 1..Len(conds) : Lower(conds[i].field) \in BuiltInKeys
    /\ fout1.items = <<>>

\* C18: the previous_queries of a result memory_tool returned is a snapshot:
\* recording or evicting memory entries afterwards does not change what
\* reading it yields.
C18_PreviousQueriesIsSnapshot ==
    "previous_queries" \in DOMAIN mheld => ReadPreviousQueries(mheld, mmem) = mheldSeen

====
